---- MODULE Spec2Model ----
(***************************************************************************)
(* Model of usermanager.py: the PingOne client's token acquisition and the *)
(* two background workers (UserFetchWorker, BulkDeleteWorker) with the     *)
(* signals they emit.  One step of a worker is the code between two        *)
(* awaits: a network call, its outcome, and everything the coroutine does  *)
(* with it up to the next call.                                            *)
(***************************************************************************)
EXTENDS Integers, Sequences, FiniteSets, TLC

\* ------------------------------------------------------------------ bounds
\* Longest users collection (in pages) the server is configured with.
MaxPages == 2
\* Longest identifier sequence handed to a BulkDeleteWorker.
MaxIds == 2

\* Worker invocations (each has its own client and signals).
TaskIds == {1, 2, 3}
\* The invocation the worker specification runs on its own, under every answer
\* of the server.
HarnessTasks == {1}

\* User records are opaque here; a page is a list of them.
Users == {"u1", "u2"}
\* Embedded user lists a page may carry: empty, one user, two users; "u1"
\* occurs on several pages so that the aggregate can hold duplicates.
PageContents == {<< >>, <<"u1">>, <<"u2", "u1">>}

\* The model's window on the lists a non-terminating pagination grows without
\* bound: entries past the window are not recorded.  Every terminating run of
\* a finite chain stays inside it.
MaxAgg == 2 * (MaxPages + 1)
MaxTrace == 2 * (MaxPages + MaxIds) + 2

\* ------------------------------------------------------------- python values
\* Python's None (get_token's absent token, a missing href).
None == "<None>"
\* _links.next.href absent: the while loop's falsy url.  Page k's url is k.
NoUrl == 0
\* f"{self.client.base_url}/users": the first page.
BaseUsersUrl == 1

\* `token == ""` in place of `not token` (mutant).
Falsy_empty_only(v) == v = ""

\* `not token` / `while url` truthiness of a str-or-None.
Falsy(v) == v = None \/ v = ""

\* ------------------------------------------------------------ token endpoint
\* What the token endpoint can do with the POST: fail in transport, answer a
\* status, and carry a body that is undecodable, JSON of another shape than an
\* object, or an object with or without an access_token member.
TokenResponses ==
  [transport : {"error"}, status : {0}, body : {"none"}, access_token : {None}]
    \cup
  [transport : {"ok"}, status : {200, 401, 500},
   body : {"undecodable", "array", "object_without_token"}, access_token : {None}]
    \cup
  [transport : {"ok"}, status : {200, 401, 500},
   body : {"object_with_token"}, access_token : {"tokA", "", None}]

NoExc == "no exception"

\* The body of get_token's try block, line by line: the exception it raises,
\* if any, and the value of resp.json().get("access_token") otherwise.
TokenTry(resp) ==
  IF resp.transport = "error"
    THEN [exc |-> "httpx.ConnectError", value |-> None]
  ELSE IF resp.status \div 100 # 2
    THEN [exc |-> "httpx.HTTPStatusError", value |-> None]
  ELSE IF resp.body = "undecodable"
    THEN [exc |-> "json.JSONDecodeError", value |-> None]
  ELSE IF resp.body = "array"
    THEN [exc |-> "AttributeError", value |-> None]
  ELSE IF resp.body = "object_without_token"
    THEN [exc |-> NoExc, value |-> None]
  ELSE [exc |-> NoExc, value |-> resp.access_token]

\* A get_token whose except clause names httpx.HTTPError only (mutant).
get_token_narrow_except(resp) ==
  LET r == TokenTry(resp)
  IN  IF r.exc \in {"httpx.ConnectError", "httpx.HTTPStatusError"}
        THEN [raised |-> NoExc, value |-> None]
        ELSE [raised |-> r.exc, value |-> r.value]

\* PingOneClient.get_token: `except Exception: return None`.
get_token(resp) ==
  LET r == TokenTry(resp)
  IN  IF r.exc # NoExc
        THEN [raised |-> NoExc, value |-> None]
        ELSE [raised |-> NoExc, value |-> r.value]

\* f"Bearer {token}"
Bearer(tok) == IF tok = None THEN "Bearer None" ELSE "Bearer " \o tok

\* ------------------------------------------------------ populations endpoint
P1 == [id |-> "p1", name |-> "Pop One"]
P2 == [id |-> "p2", name |-> "Pop Two"]
PopLists == {<< >>, <<P1>>, <<P1, P2>>}

\* What GET {base}/populations can do.  No status is modelled: the worker
\* never looks at it (no raise_for_status on line 56).
PopResponses ==
  [transport : {"error"}, body : {"none"}, pops : {<< >>}]
    \cup
  [transport : {"ok"},
   body : {"undecodable", "array", "object_without_embedded", "entry_without_name"},
   pops : {<< >>}]
    \cup
  [transport : {"ok"}, body : {"object"}, pops : PopLists]

\* {p['id']: p['name'] for p in ...}: a later entry overwrites an earlier one.
PopMapOf(pops) ==
  [k \in {pops[j].id : j \in 1..Len(pops)} |->
     LET last == CHOOSE j \in 1..Len(pops) :
                   /\ pops[j].id = k
                   /\ \A j2 \in 1..Len(pops) : pops[j2].id = k => j2 <= j
     IN  pops[last].name]

\* Lines 56-57: the exception raised, if any, and pop_map otherwise.
PopTry(resp) ==
  IF resp.transport = "error"
    THEN [exc |-> "httpx.ConnectError", pop_map |-> << >>]
  ELSE IF resp.body = "undecodable"
    THEN [exc |-> "json.JSONDecodeError", pop_map |-> << >>]
  ELSE IF resp.body = "array"
    THEN [exc |-> "AttributeError", pop_map |-> << >>]
  ELSE IF resp.body = "entry_without_name"
    THEN [exc |-> "KeyError", pop_map |-> << >>]
  ELSE IF resp.body = "object_without_embedded"
    THEN [exc |-> NoExc, pop_map |-> << >>]
  ELSE [exc |-> NoExc, pop_map |-> PopMapOf(resp.pops)]

\* ------------------------------------------------------------ users endpoint
\* A users collection as the server holds it: page k carries a list of users
\* and a next link to another page of the collection, or none.
Collections ==
  UNION { [1..n -> [users : PageContents, next : 0..n]] : n \in 1..MaxPages }

\* What GET <url> can do: fail in transport, answer a body that is not JSON,
\* JSON that is no object, an error object (no _embedded, no _links), or the
\* page itself.
PageResponseKinds == {"error", "undecodable", "array", "error_object", "page"}

\* Lines 60-63 with the page's own url standing in for a missing next link
\* (mutant of PageTry).
PageTry_self_link(pg, k, rk) ==
  IF rk = "error"
    THEN [exc |-> "httpx.ConnectError", users |-> << >>, next |-> NoUrl]
  ELSE IF rk = "undecodable"
    THEN [exc |-> "json.JSONDecodeError", users |-> << >>, next |-> NoUrl]
  ELSE IF rk = "array"
    THEN [exc |-> "AttributeError", users |-> << >>, next |-> NoUrl]
  ELSE IF rk = "error_object"
    THEN [exc |-> NoExc, users |-> << >>, next |-> NoUrl]
  ELSE [exc |-> NoExc, users |-> pg[k].users,
        next |-> IF pg[k].next = NoUrl THEN k ELSE pg[k].next]

\* Lines 60-63 for page k of collection pg: the exception raised, if any, the
\* embedded users and the next href otherwise.
PageTry(pg, k, rk) ==
  IF rk = "error"
    THEN [exc |-> "httpx.ConnectError", users |-> << >>, next |-> NoUrl]
  ELSE IF rk = "undecodable"
    THEN [exc |-> "json.JSONDecodeError", users |-> << >>, next |-> NoUrl]
  ELSE IF rk = "array"
    THEN [exc |-> "AttributeError", users |-> << >>, next |-> NoUrl]
  ELSE IF rk = "error_object"
    THEN [exc |-> NoExc, users |-> << >>, next |-> NoUrl]
  ELSE [exc |-> NoExc, users |-> pg[k].users, next |-> pg[k].next]

\* all_users = ... in place of all_users.extend(...) (mutant).
Extend_assign(all, us) == us

\* all_users.extend(...), inside the model's window.
Extend(all, us) == IF Len(all) + Len(us) <= MaxAgg THEN all \o us ELSE all

\* A fixed message in place of str(e) (mutant).
StrOf_generic(exc) == "Fetch failed."

\* str(e) of the exception the worker caught.
StrOf(exc) == "str(" \o exc \o ")"

AuthFailedMsg == "Auth Failed. Check credentials."

\* ----------------------------------------------------------- delete endpoint
DeleteResponses ==
  [transport : {"error"}, status : {0}]
    \cup
  [transport : {"ok"}, status : {204, 401, 404}]

\* Identifier sequences a BulkDeleteWorker is constructed with.
IdSeqs == UNION { [1..n -> Users] : n \in 0..MaxIds }

\* -------------------------------------------------------------------- state
VARIABLES
  kind,       \* per task: "none" (not constructed), "fetch", "delete"
  pc,         \* per task: where execute() stands
  pages,      \* per fetch task: the users collection the server serves it
  token,      \* execute's local token
  pop_map,    \* UserFetchWorker.execute's pop_map
  all_users,  \* UserFetchWorker.execute's all_users
  url,        \* UserFetchWorker.execute's url
  user_ids,   \* BulkDeleteWorker.user_ids
  i,          \* items of user_ids the delete loop has gone through
  success,    \* BulkDeleteWorker.execute's success
  trace,      \* per task: its network calls and the signals it emitted, in order
  turn,       \* per task: parity of the number of network calls it has awaited
              \* (a loop turn is a step even when it leaves every list as it was)
  mainq,      \* signals emitted and not yet handled: the GUI thread's event queue
  users_cache,   \* MainWindow.users_cache
  win_pop_map,   \* MainWindow.pop_map
  u_table,       \* MainWindow.u_table: its rows, each with its cells and hidden flag
  search_bar,    \* MainWindow.search_bar's text
  handled,       \* the signals the GUI thread has handled, in order
  cause,         \* per task: what dispatched it (a user action or a handler)
  at_dispatch,   \* per task: users_cache and pop_map as they were at its dispatch
  confirm,       \* the identifiers the open "Delete n users?" dialog asks about
  config_file,   \* profiles.json: profile name -> {env_id, cl_id}
  vault,         \* keyring, service "PingOneUM": profile name -> secret
  env_id, cl_id, cl_sec,   \* the three credential fields
  profile_list,  \* the combo box: its items and its current index
  saves,         \* per profile name: the three fields as they stood at its last save
  loaded         \* the profile load_selected_profile loaded last, and what it put
                 \* into the three fields

winVars == <<users_cache, win_pop_map, u_table, search_bar, handled, cause,
             at_dispatch, confirm>>
profVars == <<config_file, vault, env_id, cl_id, cl_sec, profile_list, saves,
              loaded>>
workerVars == <<kind, pc, pages, token, pop_map, all_users, url, user_ids, i,
                success, trace, turn>>

vars == <<kind, pc, pages, token, pop_map, all_users, url, user_ids, i,
          success, trace, turn, mainq, winVars, profVars>>

fetchVars == <<pages, pop_map, all_users, url>>
deleteVars == <<user_ids, i, success>>

\* A network call enters the trace while the window has room; a signal always.
LogCall(tr, e) == IF Len(tr) < MaxTrace THEN Append(tr, e) ELSE tr
Emit(tr, e) == Append(tr, e)

\* The signals among a task's trace.
SignalsOf(tr) == SelectSeq(tr, LAMBDA e : e.ev \in {"progress", "finished", "error"})

\* Signal.emit from the worker's thread: every handler is connected to an
\* object of the GUI thread (lines 179-180, 207-208), so each signal the step
\* emitted is queued there, in emission order.
Posted(t) ==
  LET old == SignalsOf(trace[t])
      new == SignalsOf(trace'[t])
  IN  mainq' = mainq \o [k \in 1..(Len(new) - Len(old)) |->
                          [task |-> t, sig |-> new[Len(old) + k]]]

Init ==
  /\ kind = [t \in TaskIds |-> "none"]
  /\ pc = [t \in TaskIds |-> "idle"]
  /\ pages = [t \in TaskIds |-> << >>]
  /\ token = [t \in TaskIds |-> None]
  /\ pop_map = [t \in TaskIds |-> << >>]
  /\ all_users = [t \in TaskIds |-> << >>]
  /\ url = [t \in TaskIds |-> NoUrl]
  /\ user_ids = [t \in TaskIds |-> << >>]
  /\ i = [t \in TaskIds |-> 0]
  /\ success = [t \in TaskIds |-> 0]
  /\ trace = [t \in TaskIds |-> << >>]
  /\ turn = [t \in TaskIds |-> 0]
  /\ mainq = << >>
  /\ users_cache = << >>
  /\ win_pop_map = << >>
  /\ u_table = << >>
  /\ search_bar = ""
  /\ handled = << >>
  /\ cause = [t \in TaskIds |-> [by |-> "none", root |-> 0]]
  /\ at_dispatch = [t \in TaskIds |->
                      [users |-> << >>, pop_map |-> << >>, nhandled |-> 0]]
  /\ confirm = [open |-> FALSE, uids |-> << >>]
  /\ config_file = << >>
  /\ vault = << >>
  /\ env_id = "" /\ cl_id = "" /\ cl_sec = ""
  /\ profile_list = [items |-> << >>, current |-> 0]
  /\ saves = << >>
  /\ loaded = [name |-> "", env_id |-> "", cl_id |-> "", cl_sec |-> ""]

\* ---------------------------------------------------------- UserFetchWorker
\* UserFetchWorker(client) is constructed and handed to the thread pool; the
\* server holds some users collection while it runs.
StartFetch(t) ==
  /\ kind[t] = "none"
  /\ \E pg \in Collections : pages' = [pages EXCEPT ![t] = pg]
  /\ kind' = [kind EXCEPT ![t] = "fetch"]
  /\ pc' = [pc EXCEPT ![t] = "token"]
  /\ UNCHANGED <<token, pop_map, all_users, url, user_ids, i, success, trace, turn>>
  /\ UNCHANGED <<mainq, winVars, profVars>>

\* Lines 50-54 without the `return` of line 53: the authentication failure is
\* signalled and the task goes on (mutant of FetchToken).
FetchToken_no_return(t) ==
  /\ kind[t] = "fetch" /\ pc[t] = "token"
  /\ \E resp \in TokenResponses :
       LET r == get_token(resp)
           tr == LogCall(trace[t], [ev |-> "POST_token", resp |-> resp,
                                    exc |-> r.raised, ret |-> r.value])
       IN  /\ trace' = [trace EXCEPT ![t] =
                IF Falsy(r.value)
                  THEN Emit(tr, [ev |-> "error", msg |-> AuthFailedMsg])
                  ELSE tr]
           /\ pc' = [pc EXCEPT ![t] = "pops"]
           /\ token' = [token EXCEPT ![t] = r.value]
  /\ turn' = [turn EXCEPT ![t] = 1 - turn[t]]
  /\ Posted(t)
  /\ UNCHANGED <<winVars, profVars>>
  /\ UNCHANGED <<kind, fetchVars, deleteVars>>

\* A worker that takes the token another worker holds, when there is one,
\* instead of asking for its own (mutant of FetchToken).
FetchToken_cached(t) ==
  /\ kind[t] = "fetch" /\ pc[t] = "token"
  /\ IF \E t2 \in TaskIds \ {t} : ~Falsy(token[t2])
       THEN /\ token' = [token EXCEPT ![t] =
                           token[CHOOSE t2 \in TaskIds \ {t} : ~Falsy(token[t2])]]
            /\ pc' = [pc EXCEPT ![t] = "pops"]
            /\ UNCHANGED trace
       ELSE \E resp \in TokenResponses :
              LET r == get_token(resp)
                  tr == LogCall(trace[t], [ev |-> "POST_token", resp |-> resp,
                                           exc |-> r.raised, ret |-> r.value])
              IN  IF Falsy(r.value)
                    THEN /\ trace' = [trace EXCEPT ![t] =
                              Emit(tr, [ev |-> "error", msg |-> AuthFailedMsg])]
                         /\ pc' = [pc EXCEPT ![t] = "done"]
                         /\ token' = [token EXCEPT ![t] = r.value]
                    ELSE /\ trace' = [trace EXCEPT ![t] = tr]
                         /\ pc' = [pc EXCEPT ![t] = "pops"]
                         /\ token' = [token EXCEPT ![t] = r.value]
  /\ turn' = [turn EXCEPT ![t] = 1 - turn[t]]
  /\ Posted(t)
  /\ UNCHANGED <<winVars, profVars>>
  /\ UNCHANGED <<kind, fetchVars, deleteVars>>

\* Lines 50-54: await get_token(); an absent token ends the task with the
\* authentication failure.  An exception out of get_token would be caught by
\* the except clause of line 65.
FetchToken(t) ==
  /\ kind[t] = "fetch" /\ pc[t] = "token"
  /\ \E resp \in TokenResponses :
       LET r == get_token(resp)
           tr == LogCall(trace[t], [ev |-> "POST_token", resp |-> resp,
                                    exc |-> r.raised, ret |-> r.value])
       IN  IF r.raised # NoExc
             THEN /\ trace' = [trace EXCEPT ![t] =
                       Emit(tr, [ev |-> "error", msg |-> StrOf(r.raised)])]
                  /\ pc' = [pc EXCEPT ![t] = "done"]
                  /\ UNCHANGED token
           ELSE IF Falsy(r.value)
             THEN /\ trace' = [trace EXCEPT ![t] =
                       Emit(tr, [ev |-> "error", msg |-> AuthFailedMsg])]
                  /\ pc' = [pc EXCEPT ![t] = "done"]
                  /\ token' = [token EXCEPT ![t] = r.value]
           ELSE   /\ trace' = [trace EXCEPT ![t] = tr]
                  /\ pc' = [pc EXCEPT ![t] = "pops"]
                  /\ token' = [token EXCEPT ![t] = r.value]
  /\ turn' = [turn EXCEPT ![t] = 1 - turn[t]]
  /\ Posted(t)
  /\ UNCHANGED <<winVars, profVars>>
  /\ UNCHANGED <<kind, fetchVars, deleteVars>>

\* Lines 56-58: GET the populations, build pop_map, start the pagination at
\* the base users url; any exception goes to line 65.
FetchPopulations(t) ==
  /\ kind[t] = "fetch" /\ pc[t] = "pops"
  /\ \E resp \in PopResponses :
       LET r == PopTry(resp)
           tr == LogCall(trace[t], [ev |-> "GET_populations",
                                    auth |-> Bearer(token[t]), resp |-> resp,
                                    exc |-> r.exc])
       IN  IF r.exc # NoExc
             THEN /\ trace' = [trace EXCEPT ![t] =
                       Emit(tr, [ev |-> "error", msg |-> StrOf(r.exc)])]
                  /\ pc' = [pc EXCEPT ![t] = "done"]
                  /\ UNCHANGED <<pop_map, all_users, url>>
             ELSE /\ trace' = [trace EXCEPT ![t] = tr]
                  /\ pop_map' = [pop_map EXCEPT ![t] = r.pop_map]
                  /\ all_users' = [all_users EXCEPT ![t] = << >>]
                  /\ url' = [url EXCEPT ![t] = BaseUsersUrl]
                  /\ pc' = [pc EXCEPT ![t] = "users"]
  /\ turn' = [turn EXCEPT ![t] = 1 - turn[t]]
  /\ Posted(t)
  /\ UNCHANGED <<winVars, profVars>>
  /\ UNCHANGED <<kind, pages, token, deleteVars>>

\* The payload of line 64.
FetchResult(users, pm) ==
  [users |-> users, pop_map |-> pm, user_count |-> Len(users),
   pop_count |-> Cardinality(DOMAIN pm)]

\* The url the loop goes on with after a page: its next href (line 63).
NextUrl(r) == r.next

\* One turn of the while loop, lines 59-63, and, when it was the last, the
\* completion of line 64; any exception goes to line 65.
FetchUsersPage(t) ==
  /\ kind[t] = "fetch" /\ pc[t] = "users" /\ url[t] # NoUrl
  /\ \E rk \in PageResponseKinds :
       LET r == PageTry(pages[t], url[t], rk)
           tr == LogCall(trace[t], [ev |-> "GET_users", page |-> url[t],
                                    auth |-> Bearer(token[t]), resp |-> rk,
                                    exc |-> r.exc])
           all == Extend(all_users[t], r.users)
       IN  IF r.exc # NoExc
             THEN /\ trace' = [trace EXCEPT ![t] =
                       Emit(tr, [ev |-> "error", msg |-> StrOf(r.exc)])]
                  /\ pc' = [pc EXCEPT ![t] = "done"]
                  /\ UNCHANGED <<all_users, url>>
           ELSE IF NextUrl(r) = NoUrl
             THEN /\ all_users' = [all_users EXCEPT ![t] = all]
                  /\ url' = [url EXCEPT ![t] = NoUrl]
                  /\ trace' = [trace EXCEPT ![t] =
                       Emit(tr, [ev |-> "finished",
                                 payload |-> FetchResult(all, pop_map[t])])]
                  /\ pc' = [pc EXCEPT ![t] = "done"]
           ELSE   /\ all_users' = [all_users EXCEPT ![t] = all]
                  /\ url' = [url EXCEPT ![t] = NextUrl(r)]
                  /\ trace' = [trace EXCEPT ![t] = tr]
                  /\ UNCHANGED pc
  /\ turn' = [turn EXCEPT ![t] = 1 - turn[t]]
  /\ Posted(t)
  /\ UNCHANGED <<winVars, profVars>>
  /\ UNCHANGED <<kind, pages, token, pop_map, deleteVars>>

\* --------------------------------------------------------- BulkDeleteWorker
\* BulkDeleteWorker(client, user_ids) is constructed and handed to the pool.
StartDelete(t) ==
  /\ kind[t] = "none"
  /\ \E ids \in IdSeqs : user_ids' = [user_ids EXCEPT ![t] = ids]
  /\ kind' = [kind EXCEPT ![t] = "delete"]
  /\ pc' = [pc EXCEPT ![t] = "token"]
  /\ UNCHANGED <<pages, token, pop_map, all_users, url, i, success, trace, turn>>
  /\ UNCHANGED <<mainq, winVars, profVars>>

\* The payload of line 84.
DeleteResult(succ, ids) == [deleted |-> succ, total |-> Len(ids)]

\* A BulkDeleteWorker that, like UserFetchWorker, gives up on an absent token
\* (mutant of DeleteToken).
DeleteToken_failfast(t) ==
  /\ kind[t] = "delete" /\ pc[t] = "token"
  /\ \E resp \in TokenResponses :
       LET r == get_token(resp)
           tr == LogCall(trace[t], [ev |-> "POST_token", resp |-> resp,
                                    exc |-> r.raised, ret |-> r.value])
       IN  IF Falsy(r.value)
             THEN /\ token' = [token EXCEPT ![t] = r.value]
                  /\ trace' = [trace EXCEPT ![t] =
                       Emit(tr, [ev |-> "error", msg |-> AuthFailedMsg])]
                  /\ pc' = [pc EXCEPT ![t] = "done"]
                  /\ UNCHANGED <<success, i>>
           ELSE IF Len(user_ids[t]) = 0
             THEN /\ token' = [token EXCEPT ![t] = r.value]
                  /\ success' = [success EXCEPT ![t] = 0]
                  /\ trace' = [trace EXCEPT ![t] =
                       Emit(tr, [ev |-> "finished",
                                 payload |-> [deleted |-> 0, total |-> 0]])]
                  /\ pc' = [pc EXCEPT ![t] = "done"]
                  /\ UNCHANGED i
           ELSE   /\ token' = [token EXCEPT ![t] = r.value]
                  /\ success' = [success EXCEPT ![t] = 0]
                  /\ i' = [i EXCEPT ![t] = 0]
                  /\ trace' = [trace EXCEPT ![t] = tr]
                  /\ pc' = [pc EXCEPT ![t] = "loop"]
  /\ turn' = [turn EXCEPT ![t] = 1 - turn[t]]
  /\ Posted(t)
  /\ UNCHANGED <<winVars, profVars>>
  /\ UNCHANGED <<kind, fetchVars, user_ids>>

\* Lines 74-77, and line 84 at once when user_ids is empty.  Nothing looks at
\* the token; an exception out of get_token would leave execute() uncaught.
DeleteToken(t) ==
  /\ kind[t] = "delete" /\ pc[t] = "token"
  /\ \E resp \in TokenResponses :
       LET r == get_token(resp)
           tr == LogCall(trace[t], [ev |-> "POST_token", resp |-> resp,
                                    exc |-> r.raised, ret |-> r.value])
       IN  IF r.raised # NoExc
             THEN /\ trace' = [trace EXCEPT ![t] = tr]
                  /\ pc' = [pc EXCEPT ![t] = "crashed"]
                  /\ UNCHANGED <<token, success, i>>
           ELSE IF Len(user_ids[t]) = 0
             THEN /\ token' = [token EXCEPT ![t] = r.value]
                  /\ success' = [success EXCEPT ![t] = 0]
                  /\ trace' = [trace EXCEPT ![t] =
                       Emit(tr, [ev |-> "finished",
                                 payload |-> DeleteResult(0, user_ids[t])])]
                  /\ pc' = [pc EXCEPT ![t] = "done"]
                  /\ UNCHANGED i
           ELSE   /\ token' = [token EXCEPT ![t] = r.value]
                  /\ success' = [success EXCEPT ![t] = 0]
                  /\ i' = [i EXCEPT ![t] = 0]
                  /\ trace' = [trace EXCEPT ![t] = tr]
                  /\ pc' = [pc EXCEPT ![t] = "loop"]
  /\ turn' = [turn EXCEPT ![t] = 1 - turn[t]]
  /\ Posted(t)
  /\ UNCHANGED <<winVars, profVars>>
  /\ UNCHANGED <<kind, fetchVars, user_ids>>

\* Lines 79-82: the call counts as a success unless it raised.
DeleteSucceeded(resp) == resp.transport # "error"

\* enumerate(self.user_ids), line 78: the item of loop index idx.
ItemAt_reversed(ids, idx) == ids[Len(ids) - idx]

ItemAt(ids, idx) == ids[idx + 1]

\* The first argument of progress.emit on line 83, for loop index idx.
ProgressCurrent_index(idx) == idx

ProgressCurrent(idx) == idx + 1

\* One turn of the for loop, lines 78-83, and, after the last item, the
\* completion of line 84.
DeleteItem(t) ==
  /\ kind[t] = "delete" /\ pc[t] = "loop" /\ i[t] < Len(user_ids[t])
  /\ \E resp \in DeleteResponses :
       LET uid == ItemAt(user_ids[t], i[t])
           succ == IF DeleteSucceeded(resp) THEN success[t] + 1 ELSE success[t]
           tr1 == LogCall(trace[t], [ev |-> "DELETE", id |-> uid,
                                     auth |-> Bearer(token[t]), resp |-> resp])
           tr2 == Emit(tr1, [ev |-> "progress", current |-> ProgressCurrent(i[t]),
                             total |-> Len(user_ids[t])])
       IN  /\ success' = [success EXCEPT ![t] = succ]
           /\ i' = [i EXCEPT ![t] = i[t] + 1]
           /\ IF i[t] + 1 = Len(user_ids[t])
                THEN /\ trace' = [trace EXCEPT ![t] =
                          Emit(tr2, [ev |-> "finished",
                                     payload |-> DeleteResult(succ, user_ids[t])])]
                     /\ pc' = [pc EXCEPT ![t] = "done"]
                ELSE /\ trace' = [trace EXCEPT ![t] = tr2]
                     /\ UNCHANGED pc
  /\ turn' = [turn EXCEPT ![t] = 1 - turn[t]]
  /\ Posted(t)
  /\ UNCHANGED <<winVars, profVars>>
  /\ UNCHANGED <<kind, fetchVars, token, user_ids>>

\* -------------------------------------------------------------- specification
WorkerStep(t) ==
  \/ FetchToken(t)
  \/ FetchPopulations(t)
  \/ FetchUsersPage(t)
  \/ DeleteToken(t)
  \/ DeleteItem(t)

Next ==
  \E t \in HarnessTasks :
    \/ StartFetch(t)
    \/ StartDelete(t)
    \/ WorkerStep(t)

Spec == Init /\ [][Next]_vars

\* Each network call returns or raises and the pool runs the worker: a step a
\* running worker can take is eventually taken.
FairSpec == Spec /\ \A t \in TaskIds : WF_vars(WorkerStep(t))

\* ================================================================ MainWindow
\* ------------------------------------------------------------- table contents
\* The user records the server holds, as on_fetch_success reads them with
\* u.get(...): "u2" has no family name and no population.
UserRecord(u) ==
  IF u = "u1"
    THEN [id |-> "u1", username |-> "alice", email |-> "al@x.io",
          given |-> "Al", family |-> "Ice", population |-> "p1"]
    ELSE [id |-> "u2", username |-> "Bob", email |-> "bob@x.io",
          given |-> "Bob", family |-> "", population |-> ""]

\* The lookup applied with the raw identifier as fallback for every user, even
\* one the lookup knows (mutant).
PopCell_raw(pm, p_id) == p_id

\* self.pop_map.get(p_id, p_id), line 195.
PopCell(pm, p_id) == IF p_id \in DOMAIN pm THEN pm[p_id] ELSE p_id

\* Lines 190-196: the six cells of the row of user u.
RowOf(u, pm) ==
  LET r == UserRecord(u)
  IN  [cells |-> <<r.username, r.email, r.given, r.family,
                   PopCell(pm, r.population), r.id>>,
       hidden |-> FALSE]

\* QTableWidgetItem's order on the texts of column 0 (code point order:
\* upper case before lower case).
Rank(text) == IF text = "alice" THEN 2 ELSE 1

\* setSortingEnabled(True), line 197: the rows are sorted at once by the
\* header's sort section and order, column 0 descending unless the user has
\* clicked a header; the sort is stable.
SortRows(rows) ==
  SelectSeq(rows, LAMBDA r : Rank(r.cells[1]) = 2)
    \o SelectSeq(rows, LAMBDA r : Rank(r.cells[1]) = 1)

\* The characters of the texts the cells and the search bar can hold.
Chars(text) ==
  CASE text = "alice" -> <<"a", "l", "i", "c", "e">>
    [] text = "al@x.io" -> <<"a", "l", "@", "x", ".", "i", "o">>
    [] text = "Al" -> <<"A", "l">>
    [] text = "Ice" -> <<"I", "c", "e">>
    [] text = "Bob" -> <<"B", "o", "b">>
    [] text = "bob@x.io" -> <<"b", "o", "b", "@", "x", ".", "i", "o">>
    [] text = "p1" -> <<"p", "1">>
    [] text = "u1" -> <<"u", "1">>
    [] text = "u2" -> <<"u", "2">>
    [] text = "Pop One" -> <<"P", "o", "p", " ", "O", "n", "e">>
    [] text = "Pop Two" -> <<"P", "o", "p", " ", "T", "w", "o">>
    [] text = "AL" -> <<"A", "L">>
    [] OTHER -> << >>

\* str.lower(), character by character.
LowerChar(c) ==
  CASE c = "A" -> "a" [] c = "B" -> "b" [] c = "I" -> "i" [] c = "L" -> "l"
    [] c = "O" -> "o" [] c = "P" -> "p" [] c = "T" -> "t" [] OTHER -> c
Lower(cs) == [k \in 1..Len(cs) |-> LowerChar(cs[k])]

\* Python's `needle in hay` on strings.
Contains(hay, needle) ==
  \E k \in 0..(Len(hay) - Len(needle)) :
    \A j \in 1..Len(needle) : hay[k + j] = needle[j]

\* Line 214: any(txt in item(i, j).text().lower() for j in columns).
RowMatches(row, txt) ==
  \E j \in 1..Len(row.cells) : Contains(Lower(Chars(row.cells[j])), txt)

\* The texts typed into the search bar.
Queries == {"", "AL"}

\* ------------------------------------------------------------------ dispatch
\* The answers of the server the window is exercised with: one of each kind
\* the handlers can tell apart.  UserFetchWorker and BulkDeleteWorker are
\* exercised with every answer in Spec.
UITokenResponses ==
  {r \in TokenResponses :
     \/ r.transport = "error"
     \/ r.status = 200 /\ r.body = "object_with_token" /\ r.access_token = "tokA"}
UIPopResponses ==
  {r \in PopResponses :
     \/ r.transport = "error"
     \/ r.body = "object_without_embedded"
     \/ r.body = "object" /\ r.pops = <<P1>>}
UIPageResponseKinds == {"page", "error"}
UIDeleteResponses == {r \in DeleteResponses : r.status \in {0, 204}}
UICollections ==
  {c \in Collections :
     \/ Len(c) = 1 /\ c[1].users = <<"u2", "u1">> /\ c[1].next = NoUrl
     \/ Len(c) = 1 /\ c[1].users = <<"u1">> /\ c[1].next = NoUrl}

PlainAnswers(tr) ==
  \A k \in 1..Len(tr) :
    /\ tr[k].ev = "POST_token" => tr[k].resp \in UITokenResponses
    /\ tr[k].ev = "GET_populations" => tr[k].resp \in UIPopResponses
    /\ tr[k].ev = "GET_users" => tr[k].resp \in UIPageResponseKinds
    /\ tr[k].ev = "DELETE" => tr[k].resp \in UIDeleteResponses

\* The worker not yet constructed that the next dispatch constructs.
FreeTask(t) ==
  /\ kind[t] = "none"
  /\ \A t2 \in TaskIds : kind[t2] = "none" => t <= t2

Snapshot == [users |-> users_cache, pop_map |-> win_pop_map,
             nhandled |-> Len(handled)]

\* refresh_users that empties the cache before it starts the worker (mutant).
StartRefresh_clearing(t, by, root) ==
  /\ FreeTask(t)
  /\ \E pg \in UICollections : pages' = [pages EXCEPT ![t] = pg]
  /\ kind' = [kind EXCEPT ![t] = "fetch"]
  /\ pc' = [pc EXCEPT ![t] = "token"]
  /\ cause' = [cause EXCEPT ![t] = [by |-> by, root |-> root]]
  /\ at_dispatch' = [at_dispatch EXCEPT ![t] = Snapshot]
  /\ users_cache' = << >> /\ win_pop_map' = << >>
  /\ UNCHANGED <<token, pop_map, all_users, url, user_ids, i, success, trace,
                 turn>>

\* Lines 176-181: a UserFetchWorker is constructed, its signals are
\* connected and it is handed to the thread pool.  `by` is the slot or handler
\* that runs refresh_users, `root` the worker of the user action behind it.
StartRefresh(t, by, root) ==
  /\ FreeTask(t)
  /\ \E pg \in UICollections : pages' = [pages EXCEPT ![t] = pg]
  /\ kind' = [kind EXCEPT ![t] = "fetch"]
  /\ pc' = [pc EXCEPT ![t] = "token"]
  /\ cause' = [cause EXCEPT ![t] = [by |-> by, root |-> root]]
  /\ at_dispatch' = [at_dispatch EXCEPT ![t] = Snapshot]
  /\ UNCHANGED <<users_cache, win_pop_map>>
  /\ UNCHANGED <<token, pop_map, all_users, url, user_ids, i, success, trace,
                 turn>>

\* The user presses "Connect & Sync" or "Refresh" (lines 115, 125), both
\* connected to refresh_users; no dialog is open.
refresh_users(t) ==
  /\ ~confirm.open
  /\ StartRefresh(t, "refresh_users", t)
  /\ UNCHANGED <<mainq, u_table, search_bar, handled, confirm, profVars>>

\* ------------------------------------------------------------------- handlers
\* What the GUI thread notes of a signal it has handled: the signal and the
\* cache as the handler left it.
Handled(e) ==
  handled' = Append(handled, [task |-> e.task, sig |-> e.sig,
                              users |-> users_cache', pop_map |-> win_pop_map'])

\* An on_fetch_success that keeps the population lookup it has (mutant).
CacheOf_keep_pop_map(data, old) == [users |-> data.users, pop_map |-> old.pop_map]

\* Line 186: self.pop_map, self.users_cache = data['pop_map'], data['users'].
CacheOf(data, old) == [users |-> data.users, pop_map |-> data.pop_map]

\* Lines 187-197: the table emptied and filled again, one row per cached
\* user, every row shown, then sorted.
TableOf(users, pm) ==
  SortRows([k \in 1..Len(users) |-> RowOf(users[k], pm)])

\* on_fetch_success, lines 183-197, for the finished signal of a fetch worker.
on_fetch_success ==
  /\ Len(mainq) > 0
  /\ LET e == Head(mainq)
     IN  /\ kind[e.task] = "fetch" /\ e.sig.ev = "finished"
         /\ LET c == CacheOf(e.sig.payload,
                             [users |-> users_cache, pop_map |-> win_pop_map])
            IN  /\ users_cache' = c.users
                /\ win_pop_map' = c.pop_map
                /\ u_table' = TableOf(c.users, c.pop_map)
         /\ Handled(e)
  /\ mainq' = Tail(mainq)
  /\ UNCHANGED <<kind, pc, pages, token, pop_map, all_users, url, user_ids, i,
                 success, trace, turn>>
  /\ UNCHANGED <<search_bar, cause, at_dispatch, confirm, profVars>>

\* The lambda of line 180 for the error signal of a fetch worker: the progress
\* bar is hidden and a message box shown.
on_fetch_error ==
  /\ Len(mainq) > 0
  /\ LET e == Head(mainq)
     IN  /\ kind[e.task] = "fetch" /\ e.sig.ev = "error"
         /\ UNCHANGED <<users_cache, win_pop_map, u_table>>
         /\ Handled(e)
  /\ mainq' = Tail(mainq)
  /\ UNCHANGED <<kind, pc, pages, token, pop_map, all_users, url, user_ids, i,
                 success, trace, turn>>
  /\ UNCHANGED <<search_bar, cause, at_dispatch, confirm, profVars>>

\* A progress handler that, like the completion handler, calls refresh_users
\* (mutant of on_delete_progress).
on_delete_progress_refreshing ==
  /\ Len(mainq) > 0
  /\ LET e == Head(mainq)
     IN  /\ kind[e.task] = "delete" /\ e.sig.ev = "progress"
         /\ \E t \in TaskIds :
              StartRefresh(t, "on_delete_finished", cause[e.task].root)
         /\ Handled(e)
  /\ mainq' = Tail(mainq)
  /\ UNCHANGED <<u_table, search_bar, confirm, profVars>>

\* The lambda of line 207 for a progress signal: the progress bar is set.
on_delete_progress ==
  /\ Len(mainq) > 0
  /\ LET e == Head(mainq)
     IN  /\ kind[e.task] = "delete" /\ e.sig.ev = "progress"
         /\ UNCHANGED <<users_cache, win_pop_map, u_table>>
         /\ Handled(e)
  /\ mainq' = Tail(mainq)
  /\ UNCHANGED <<kind, pc, pages, token, pop_map, all_users, url, user_ids, i,
                 success, trace, turn>>
  /\ UNCHANGED <<search_bar, cause, at_dispatch, confirm, profVars>>

\* A completion handler that refreshes only when something was deleted
\* (mutant of on_delete_finished).
on_delete_finished_if_any(t) ==
  /\ Len(mainq) > 0
  /\ LET e == Head(mainq)
     IN  /\ kind[e.task] = "delete" /\ e.sig.ev = "finished"
         /\ IF e.sig.payload.deleted > 0
              THEN StartRefresh(t, "on_delete_finished", cause[e.task].root)
              ELSE /\ FreeTask(t)
                   /\ UNCHANGED <<kind, pc, pages, cause, at_dispatch,
                                  users_cache, win_pop_map>>
         /\ Handled(e)
  /\ mainq' = Tail(mainq)
  /\ UNCHANGED <<token, pop_map, all_users, url, user_ids, i, success, trace, turn>>
  /\ UNCHANGED <<u_table, search_bar, confirm, profVars>>

\* The lambda of line 208 for the finished signal of a delete worker: the
\* progress bar is hidden and refresh_users() is called.
on_delete_finished(t) ==
  /\ Len(mainq) > 0
  /\ LET e == Head(mainq)
     IN  /\ kind[e.task] = "delete" /\ e.sig.ev = "finished"
         /\ StartRefresh(t, "on_delete_finished", cause[e.task].root)
         /\ Handled(e)
  /\ mainq' = Tail(mainq)
  /\ UNCHANGED <<u_table, search_bar, confirm, profVars>>

\* ------------------------------------------------------------- user actions
\* The rows the user can have selected, in the order selectedRows() lists them.
Selections(n) ==
  {sel \in UNION { [1..m -> 1..n] : m \in 0..n } :
     \A a, b \in 1..Len(sel) : a # b => sel[a] # sel[b]}

\* delete_selected_users up to its question, lines 200-203: nothing happens
\* without a selection; otherwise the identifiers are read from column 5 and
\* the modal question is shown.
delete_selected_users(sel) ==
  /\ ~confirm.open
  /\ IF sel = << >>
       THEN UNCHANGED confirm
       ELSE confirm' = [open |-> TRUE,
                       uids |-> [k \in 1..Len(sel) |-> u_table[sel[k]].cells[6]]]
  /\ UNCHANGED <<workerVars, mainq, profVars>>
  /\ UNCHANGED <<users_cache, win_pop_map, u_table, search_bar, handled, cause,
                 at_dispatch>>

\* The question answered Yes, lines 204-209: a BulkDeleteWorker is constructed
\* with the identifiers, its signals are connected and it is started.
question_yes(t) ==
  /\ confirm.open
  /\ FreeTask(t)
  /\ user_ids' = [user_ids EXCEPT ![t] = confirm.uids]
  /\ kind' = [kind EXCEPT ![t] = "delete"]
  /\ pc' = [pc EXCEPT ![t] = "token"]
  /\ cause' = [cause EXCEPT ![t] = [by |-> "delete_selected_users", root |-> t]]
  /\ at_dispatch' = [at_dispatch EXCEPT ![t] = Snapshot]
  /\ confirm' = [open |-> FALSE, uids |-> << >>]
  /\ UNCHANGED <<pages, token, pop_map, all_users, url, i, success, trace, turn,
                 mainq, profVars>>
  /\ UNCHANGED <<users_cache, win_pop_map, u_table, search_bar, handled>>

\* The question answered otherwise (line 203 false): the slot returns.
question_no ==
  /\ confirm.open
  /\ confirm' = [open |-> FALSE, uids |-> << >>]
  /\ UNCHANGED <<workerVars, mainq, profVars>>
  /\ UNCHANGED <<users_cache, win_pop_map, u_table, search_bar, handled, cause,
                 at_dispatch>>

\* The user edits the search bar to q; textChanged runs filter_table, lines
\* 211-215.
filter_table(q) ==
  /\ ~confirm.open
  /\ q # search_bar
  /\ search_bar' = q
  /\ LET txt == Lower(Chars(q))
     IN  u_table' = [k \in 1..Len(u_table) |->
                      [u_table[k] EXCEPT !.hidden = ~RowMatches(u_table[k], txt)]]
  /\ UNCHANGED <<workerVars, mainq, profVars>>
  /\ UNCHANGED <<users_cache, win_pop_map, handled, cause, at_dispatch, confirm>>

\* -------------------------------------------------- the workers of the window
UIFetchToken(t) == FetchToken(t) /\ PlainAnswers(trace'[t])
UIFetchPopulations(t) == FetchPopulations(t) /\ PlainAnswers(trace'[t])
UIFetchUsersPage(t) == FetchUsersPage(t) /\ PlainAnswers(trace'[t])
UIDeleteToken(t) == DeleteToken(t) /\ PlainAnswers(trace'[t])
UIDeleteItem(t) == DeleteItem(t) /\ PlainAnswers(trace'[t])

UINext ==
  \/ \E t \in TaskIds : refresh_users(t)
  \/ \E sel \in Selections(Len(u_table)) : delete_selected_users(sel)
  \/ \E t \in TaskIds : question_yes(t)
  \/ question_no
  \/ on_fetch_success
  \/ on_fetch_error
  \/ on_delete_progress
  \/ \E t \in TaskIds : on_delete_finished(t)
  \/ \E t \in TaskIds : UIFetchToken(t)
  \/ \E t \in TaskIds : UIFetchPopulations(t)
  \/ \E t \in TaskIds : UIFetchUsersPage(t)
  \/ \E t \in TaskIds : UIDeleteToken(t)
  \/ \E t \in TaskIds : UIDeleteItem(t)

\* The window with its workers: the buttons, the steps of the workers and the
\* handling of their queued signals, in any order.
UISpec == Init /\ [][UINext]_vars

\* The workers the search bar is exercised with.
TableTasks == {1, 2}

TableNext ==
  \/ \E t \in TableTasks : refresh_users(t)
  \/ \E q \in Queries : filter_table(q)
  \/ on_fetch_success
  \/ on_fetch_error
  \/ \E t \in TableTasks : UIFetchToken(t)
  \/ \E t \in TableTasks : UIFetchPopulations(t)
  \/ \E t \in TableTasks : UIFetchUsersPage(t)

\* The table and its search bar: refreshes, their workers and completions, and
\* edits of the search bar, in any order.
TableSpec == Init /\ [][TableNext]_vars

\* ------------------------------------------------------------------ profiles
ProfileNames == {"P1", "P2"}
EnvTexts == {"E1", "E2"}
ClientTexts == {"C1", "C2"}
SecretTexts == {"S1", "S2"}

\* dict lookups on profiles.json, whose keys keep their insertion order.
Keys(p) == [k \in 1..Len(p) |-> p[k].name]
Has(p, name) == \E k \in 1..Len(p) : p[k].name = name
Entry(p, name) == p[CHOOSE k \in 1..Len(p) : p[k].name = name]

\* Line 169: p[name] = {"env_id": ..., "cl_id": ...}; an existing key keeps
\* its place.
SetEntry(p, name, e, c) ==
  IF Has(p, name)
    THEN [k \in 1..Len(p) |->
            IF p[k].name = name
              THEN [name |-> name, env_id |-> e, cl_id |-> c]
              ELSE p[k]]
    ELSE Append(p, [name |-> name, env_id |-> e, cl_id |-> c])

\* A vault that keeps the secret it has for a name (mutant).
set_password_keep(v, name, secret) ==
  IF name \in DOMAIN v THEN v ELSE [n \in DOMAIN v \cup {name} |->
                                     IF n = name THEN secret ELSE v[n]]

\* keyring.set_password("PingOneUM", name, secret), line 171.
set_password(v, name, secret) ==
  [n \in DOMAIN v \cup {name} |-> IF n = name THEN secret ELSE v[n]]

\* keyring.get_password("PingOneUM", name) or "", line 164.
get_password(v, name) == IF name \in DOMAIN v THEN v[name] ELSE None
SecretOrEmpty(s) == IF Falsy(s) THEN "" ELSE s

\* currentText() of the combo box.
CurrentText(pl) == IF pl.current = 0 THEN "" ELSE pl.items[pl.current]

\* load_selected_profile, lines 158-164, on combo box pl, file p and vault v.
LoadSelected(pl, p, v) ==
  LET name == CurrentText(pl)
  IN  IF Has(p, name)
        THEN LET sec == SecretOrEmpty(get_password(v, name))
             IN  /\ env_id' = Entry(p, name).env_id
                 /\ cl_id' = Entry(p, name).cl_id
                 /\ cl_sec' = sec
                 /\ loaded' = [name |-> name, env_id |-> Entry(p, name).env_id,
                               cl_id |-> Entry(p, name).cl_id, cl_sec |-> sec]
        ELSE UNCHANGED <<env_id, cl_id, cl_sec, loaded>>

\* The user edits one of the three credential fields.
edit_env_id(text) ==
  /\ text # env_id
  /\ env_id' = text
  /\ UNCHANGED <<config_file, vault, cl_id, cl_sec, profile_list, saves, loaded>>
  /\ UNCHANGED <<workerVars, mainq, winVars>>
edit_cl_id(text) ==
  /\ text # cl_id
  /\ cl_id' = text
  /\ UNCHANGED <<config_file, vault, env_id, cl_sec, profile_list, saves, loaded>>
  /\ UNCHANGED <<workerVars, mainq, winVars>>
edit_cl_sec(text) ==
  /\ text # cl_sec
  /\ cl_sec' = text
  /\ UNCHANGED <<config_file, vault, env_id, cl_id, profile_list, saves, loaded>>
  /\ UNCHANGED <<workerVars, mainq, winVars>>

\* save_current_profile, lines 166-171, with what the name dialog returned;
\* load_profiles_from_disk (lines 152-156) at its end fills the combo box
\* anew, which selects its first item, and loads that profile.
save_current_profile(name, ok) ==
  IF ok /\ ~Falsy(name)
    THEN /\ config_file' = SetEntry(config_file, name, env_id, cl_id)
         /\ vault' = set_password(vault, name, cl_sec)
         /\ saves' = [n \in DOMAIN saves \cup {name} |->
                        IF n = name
                          THEN [env_id |-> env_id, cl_id |-> cl_id, cl_sec |-> cl_sec]
                          ELSE saves[n]]
         /\ profile_list' = [items |-> Keys(config_file'),
                             current |-> IF Len(config_file') > 0 THEN 1 ELSE 0]
         /\ IF Len(profile_list'.items) > 0
              THEN LoadSelected(profile_list', config_file', vault')
              ELSE UNCHANGED <<env_id, cl_id, cl_sec, loaded>>
         /\ UNCHANGED <<workerVars, mainq, winVars>>
    ELSE UNCHANGED vars

\* The user picks another item of the combo box; currentIndexChanged runs
\* load_selected_profile (line 107).
select_profile(k) ==
  /\ k \in 1..Len(profile_list.items)
  /\ k # profile_list.current
  /\ profile_list' = [profile_list EXCEPT !.current = k]
  /\ LoadSelected(profile_list', config_file, vault)
  /\ UNCHANGED <<config_file, vault, saves>>
  /\ UNCHANGED <<workerVars, mainq, winVars>>

ProfileNext ==
  \/ \E text \in EnvTexts : edit_env_id(text)
  \/ \E text \in ClientTexts : edit_cl_id(text)
  \/ \E text \in SecretTexts \cup {""} : edit_cl_sec(text)
  \/ \E name \in ProfileNames \cup {""}, ok \in BOOLEAN :
       save_current_profile(name, ok)
  \/ \E k \in 1..Cardinality(ProfileNames) : select_profile(k)

\* The configuration tab: the credential fields, the profile file and the vault.
ProfileSpec == Init /\ [][ProfileNext]_vars

\* ===================================================================== claims
\* ------------------------------------------------------------------ vocabulary
IsTerminal(e) == e.ev \in {"finished", "error"}

\* The events of one kind a task has in its trace, in order.
EventsOf(t, ev) == SelectSeq(trace[t], LAMBDA e : e.ev = ev)
\* Positions of the terminal events in a task's trace.
TerminalAt(t) == {k \in 1..Len(trace[t]) : IsTerminal(trace[t][k])}
\* The task has emitted its terminal event.
Terminated(t) == Len(trace[t]) > 0 /\ IsTerminal(trace[t][Len(trace[t])])
\* execute() has been entered and has got its answer from get_token.
PastToken(t) == kind[t] # "none" /\ pc[t] # "token"

\* The pages a client that follows the next links from the base url meets, in
\* order, within `fuel` requests.
RECURSIVE WalkFrom(_, _, _)
WalkFrom(pg, k, fuel) ==
  IF k = NoUrl \/ fuel = 0 THEN << >>
  ELSE <<k>> \o WalkFrom(pg, pg[k].next, fuel - 1)

\* The collection is a finite chain: the walk meets a page without a next link
\* before it meets a page twice.
Acyclic(pg) == Len(WalkFrom(pg, 1, Len(pg) + 1)) <= Len(pg)
Chain(pg) == WalkFrom(pg, 1, Len(pg))

RECURSIVE ConcatUsers(_, _)
ConcatUsers(pg, w) ==
  IF Len(w) = 0 THEN << >> ELSE pg[Head(w)].users \o ConcatUsers(pg, Tail(w))

RECURSIVE SumCounts(_, _)
SumCounts(pg, w) ==
  IF Len(w) = 0 THEN 0 ELSE Len(pg[Head(w)].users) + SumCounts(pg, Tail(w))

IsPrefix(a, b) == Len(a) <= Len(b) /\ SubSeq(b, 1, Len(a)) = a

\* ------------------------------------------------------------------------ C1
\* C1 (as stated): every Fetch and every Bulk-Delete invocation, whatever the
\* server answers, comes to emit its one terminal event.
C1_EveryTaskEmitsItsTerminal ==
  \A t \in TaskIds : (kind[t] # "none") ~> (Cardinality(TerminalAt(t)) = 1)

\* C1 (amended): a task never emits more than one terminal event (so never a
\* completion and a failure, never the same one twice), emits and calls
\* nothing after it, and has emitted exactly one when execute() has ended;
\* execute() never ends by an uncaught exception.
C1_ExactlyOneTerminal ==
  \A t \in TaskIds :
    /\ Cardinality(TerminalAt(t)) <= 1
    /\ \A k \in TerminalAt(t) : k = Len(trace[t])
    /\ pc[t] # "crashed"
    /\ (pc[t] = "done") <=> (Cardinality(TerminalAt(t)) = 1)

\* A bulk delete of two identifiers that has ended, one call having raised:
\* two progress events, then the completion.
C1_Witness ==
  \E t \in TaskIds :
    /\ kind[t] = "delete" /\ pc[t] = "done"
    /\ Len(user_ids[t]) = 2 /\ success[t] = 1
    /\ Len(EventsOf(t, "progress")) = 2
    /\ trace[t][Len(trace[t])].ev = "finished"

\* ------------------------------------------------------------------------ C2
\* C2: when get_token returns an absent token, the Fetch task emits exactly
\* one failure, with message "Auth Failed. Check credentials.", no
\* completion, and requests neither the populations nor the users.
C2_AuthFailure ==
  \A t \in TaskIds :
    (kind[t] = "fetch" /\ PastToken(t) /\ trace[t][1].ret = None) =>
      /\ Len(trace[t]) = 2
      /\ trace[t][2] = [ev |-> "error", msg |-> "Auth Failed. Check credentials."]
      /\ pc[t] = "done"

\* The token endpoint answered 401 and the fetch task has moved on.
C2_Witness ==
  \E t \in TaskIds :
    /\ kind[t] = "fetch" /\ PastToken(t)
    /\ trace[t][1].resp.status = 401
    /\ trace[t][1].ret = None

\* ------------------------------------------------------------------------ C3
\* Every request of the task so far was served: a token, the populations, and
\* each users page as the collection holds it.
AllServed(t) ==
  \A k \in 1..Len(trace[t]) :
    LET e == trace[t][k]
    IN  /\ e.ev = "POST_token" => ~Falsy(e.ret)
        /\ e.ev = "GET_populations" => e.exc = NoExc
        /\ e.ev = "GET_users" => e.resp = "page"

\* The pages a fetch task has requested, in order.
PagesRequested(t) ==
  LET g == EventsOf(t, "GET_users") IN [k \in 1..Len(g) |-> g[k].page]

\* C3: over a collection that is a chain of N >= 1 pages, with every request
\* served, the Fetch task requests the pages in chain order, each once, stops
\* at the first page without a next link, and completes with the
\* concatenation of the pages' users, whose length and user_count are the sum
\* of the pages' user counts.
C3_Pagination ==
  \A t \in TaskIds :
    (kind[t] = "fetch" /\ PastToken(t) /\ Acyclic(pages[t]) /\ AllServed(t)) =>
      LET w == Chain(pages[t])
          req == PagesRequested(t)
      IN  /\ IsPrefix(req, w)
          /\ pc[t] = "users" =>
               /\ Len(req) < Len(w)
               /\ url[t] = w[Len(req) + 1]
               /\ all_users[t] = ConcatUsers(pages[t], req)
          /\ pc[t] = "done" =>
               /\ req = w
               /\ LET last == trace[t][Len(trace[t])]
                  IN  /\ last.ev = "finished"
                      /\ last.payload.users = ConcatUsers(pages[t], w)
                      /\ Len(last.payload.users) = SumCounts(pages[t], w)
                      /\ last.payload.user_count = SumCounts(pages[t], w)

\* A two-page chain fetched to completion, with a user that is on both pages.
C3_Witness ==
  \E t \in TaskIds :
    /\ kind[t] = "fetch" /\ pc[t] = "done" /\ AllServed(t)
    /\ Acyclic(pages[t]) /\ Len(Chain(pages[t])) = 2
    /\ trace[t][Len(trace[t])].ev = "finished"
    /\ trace[t][Len(trace[t])].payload.user_count = 3

\* ------------------------------------------------------------------------ C4
\* C4: once a token was obtained, a populations request or a users page
\* request that raises is followed by exactly one failure event carrying that
\* error's text and by nothing else: no completion (so the users aggregated
\* so far are never emitted), no further request, no retry.
C4_FetchFailure ==
  \A t \in TaskIds :
    kind[t] = "fetch" =>
      \A k \in 1..Len(trace[t]) :
        LET e == trace[t][k]
        IN  (e.ev \in {"GET_populations", "GET_users"} /\ e.exc # NoExc) =>
              /\ Len(trace[t]) = k + 1
              /\ trace[t][k + 1] = [ev |-> "error", msg |-> "str(" \o e.exc \o ")"]
              /\ pc[t] = "done"
              /\ EventsOf(t, "finished") = << >>

\* The second users page could not be decoded after the first gave users.
C4_Witness ==
  \E t \in TaskIds :
    /\ kind[t] = "fetch" /\ pc[t] = "done"
    /\ Len(all_users[t]) > 0
    /\ Len(EventsOf(t, "GET_users")) = 2
    /\ EventsOf(t, "GET_users")[2].exc = "json.JSONDecodeError"

\* ------------------------------------------------------------------------ C5
\* The (current, total) pairs of the progress events a task has emitted.
ProgressPairs(t) ==
  LET g == EventsOf(t, "progress")
  IN  [k \in 1..Len(g) |-> <<g[k].current, g[k].total>>]

\* C5: the progress events of a Bulk-Delete task carry current = 1, 2, ... in
\* that order and all the same total = number of identifiers; one has been
\* emitted per item gone through, so `total` of them when the task has ended,
\* and none at all for an empty sequence.
C5_Progress ==
  \A t \in TaskIds :
    kind[t] = "delete" =>
      LET n == Len(user_ids[t])
      IN  /\ ProgressPairs(t) = [k \in 1..i[t] |-> <<k, n>>]
          /\ i[t] <= n
          /\ pc[t] = "done" => i[t] = n
          /\ n = 0 => EventsOf(t, "progress") = << >>

\* Two identifiers gone through, the first call having failed.
C5_Witness ==
  \E t \in TaskIds :
    /\ kind[t] = "delete" /\ pc[t] = "done"
    /\ ProgressPairs(t) = << <<1, 2>>, <<2, 2>> >>
    /\ trace[t][2].resp.transport = "error"

\* ------------------------------------------------------------------------ C6
\* C6: a Bulk-Delete task issues one DELETE per identifier supplied,
\* duplicates included, in the order supplied and one at a time: after the
\* token call its trace is DELETE 1, progress 1, DELETE 2, progress 2, ...,
\* and the completion comes only after the last item's progress event.
C6_DeleteOrder ==
  \A t \in TaskIds :
    (kind[t] = "delete" /\ PastToken(t)) =>
      LET n == Len(user_ids[t])
          tr == trace[t]
      IN  /\ Len(tr) = 1 + 2 * i[t] + (IF pc[t] = "done" THEN 1 ELSE 0)
          /\ \A k \in 1..i[t] :
               /\ tr[2 * k].ev = "DELETE"
               /\ tr[2 * k].id = user_ids[t][k]
               /\ tr[2 * k + 1].ev = "progress"
               /\ tr[2 * k + 1].current = k
          /\ pc[t] = "done" =>
               /\ i[t] = n
               /\ tr[Len(tr)].ev = "finished"
               /\ Len(EventsOf(t, "DELETE")) = n

\* Two different identifiers deleted, in the order supplied.
C6_Witness ==
  \E t \in TaskIds :
    /\ kind[t] = "delete" /\ pc[t] = "done"
    /\ user_ids[t] = <<"u2", "u1">>
    /\ Len(EventsOf(t, "DELETE")) = 2

\* ------------------------------------------------------------------------ C7
\* A delete call failed in the claim's sense: it raised a transport error or
\* the server answered it with a status outside 2xx.
CallFailed(resp) == resp.transport = "error" \/ resp.status \div 100 # 2

FailedCalls(t) ==
  Len(SelectSeq(trace[t], LAMBDA e : e.ev = "DELETE" /\ CallFailed(e.resp)))

\* C7: the completion of a Bulk-Delete task reports total = number of
\* identifiers and a successful count that is <= total and equals total minus
\* the number of identifiers whose delete call raised or was answered non-2xx.
C7_SuccessCount ==
  \A t \in TaskIds :
    (kind[t] = "delete" /\ pc[t] = "done") =>
      LET p == trace[t][Len(trace[t])].payload
      IN  /\ p.total = Len(user_ids[t])
          /\ p.deleted <= p.total
          /\ p.deleted = p.total - FailedCalls(t)

\* ------------------------------------------------------------------------ C8
\* C8: with an absent token the Bulk-Delete task never emits a failure and
\* does not stop early: it ends only after one DELETE per identifier and one
\* progress event per identifier, and it ends with a completion.
C8_NoFailFast ==
  \A t \in TaskIds :
    (kind[t] = "delete" /\ PastToken(t) /\ trace[t][1].ret = None) =>
      /\ EventsOf(t, "error") = << >>
      /\ pc[t] \in {"loop", "done"}
      /\ pc[t] = "done" =>
           /\ Len(EventsOf(t, "DELETE")) = Len(user_ids[t])
           /\ Len(EventsOf(t, "progress")) = Len(user_ids[t])
           /\ trace[t][Len(trace[t])].ev = "finished"

\* Token refused with 401, two DELETE calls issued all the same.
C8_Witness ==
  \E t \in TaskIds :
    /\ kind[t] = "delete" /\ pc[t] = "done"
    /\ trace[t][1].resp.status = 401 /\ trace[t][1].ret = None
    /\ Len(EventsOf(t, "DELETE")) = 2
    /\ trace[t][2].auth = "Bearer None"

\* ------------------------------------------------------------------------ C9
\* C9 (as stated): every dispatched task eventually reaches its terminal
\* event, for every server behaviour, any chain of next links included.
C9_AlwaysTerminates ==
  \A t \in TaskIds : (kind[t] # "none") ~> Terminated(t)

\* C9 (amended): every Bulk-Delete task, and every Fetch task whose users
\* collection is a finite chain of next links, eventually reaches its
\* terminal event.
C9_TerminatesOnFiniteChain ==
  \A t \in TaskIds :
    (kind[t] = "delete" \/ (kind[t] = "fetch" /\ Acyclic(pages[t])))
      ~> Terminated(t)

\* A fetch over a chain of MaxPages pages that has reached its completion.
C9_Witness ==
  \E t \in TaskIds :
    /\ kind[t] = "fetch" /\ Acyclic(pages[t])
    /\ Len(Chain(pages[t])) = MaxPages
    /\ Terminated(t)
    /\ Len(EventsOf(t, "GET_users")) = MaxPages

\* ----------------------------------------------------------------------- C10
\* The token endpoint answered 2xx with a JSON object that has an
\* access_token member.
TokenGranted(resp) ==
  /\ resp.transport = "ok"
  /\ resp.status \div 100 = 2
  /\ resp.body = "object_with_token"

\* C10: get_token never propagates an exception; it returns the access_token
\* of a 2xx response that carries one, and an absent token on a transport
\* error, a non-2xx status and a malformed body.
C10_GetToken ==
  \A t \in TaskIds :
    \A k \in 1..Len(trace[t]) :
      LET e == trace[t][k]
      IN  e.ev = "POST_token" =>
            /\ e.exc = NoExc
            /\ TokenGranted(e.resp) => e.ret = e.resp.access_token
            /\ ~TokenGranted(e.resp) => e.ret = None

\* A 2xx answer whose body is JSON but no object: the AttributeError of
\* .get is swallowed and the token is absent.
C10_Witness ==
  \E t \in TaskIds :
    /\ PastToken(t)
    /\ trace[t][1].resp.status = 200
    /\ trace[t][1].resp.body = "array"
    /\ trace[t][1].ret = None

\* ------------------------------------------------------------ the window's log
\* What a handled signal was.
IsFetchFinished(e) == kind[e.task] = "fetch" /\ e.sig.ev = "finished"
IsFetchError(e) == kind[e.task] = "fetch" /\ e.sig.ev = "error"
IsDeleteFinished(e) == kind[e.task] = "delete" /\ e.sig.ev = "finished"
\* The cache as the k-th handled signal found it.
CacheBefore(k) ==
  IF k = 1 THEN [users |-> << >>, pop_map |-> << >>]
           ELSE [users |-> handled[k - 1].users, pop_map |-> handled[k - 1].pop_map]
\* The workers dispatched so far.
Dispatched == {t \in TaskIds : kind[t] # "none"}
\* The workers dispatched by the user action that dispatched worker r, r included.
TasksOf(r) == {t \in Dispatched : cause[t].root = r}

\* ----------------------------------------------------------------------- C11
\* C11 as stated: when the failure of a Fetch task has been handled, the cached
\* users list and the population lookup are exactly what they were when the
\* task was dispatched.
C11_CacheAsAtDispatch ==
  \A k \in 1..Len(handled) :
    IsFetchError(handled[k]) =>
      /\ handled[k].users = at_dispatch[handled[k].task].users
      /\ handled[k].pop_map = at_dispatch[handled[k].task].pop_map

\* C11, amended: the failure handler of a Fetch task leaves the cached users
\* list and the population lookup as it found them, and so did the dispatch
\* (nothing is cleared); they are what they were at the dispatch unless the
\* completion of another Fetch task was handled between the dispatch and the
\* failure.
C11_FailureLeavesCache ==
  \A k \in 1..Len(handled) :
    IsFetchError(handled[k]) =>
      LET e == handled[k]
          d == at_dispatch[e.task]
      IN  /\ e.users = CacheBefore(k).users
          /\ e.pop_map = CacheBefore(k).pop_map
          /\ (\A j \in (d.nhandled + 1)..(k - 1) : ~IsFetchFinished(handled[j]))
               => e.users = d.users /\ e.pop_map = d.pop_map

\* A Fetch task dispatched over a filled cache has failed, no completion came
\* in between, and the cache is still filled.
C11_Witness ==
  \E k \in 1..Len(handled) :
    /\ IsFetchError(handled[k])
    /\ at_dispatch[handled[k].task].users # << >>
    /\ at_dispatch[handled[k].task].nhandled = k - 1
    /\ users_cache = at_dispatch[handled[k].task].users
    /\ users_cache = handled[k].users

\* ----------------------------------------------------------------------- C12
\* C12: the cache is written by the handler of a Fetch completion only, and
\* under any interleaving of workers and handlers it holds the whole payload of
\* one completion, the one handled last (it is empty before the first): never
\* the users of one completion with the lookup of another.
C12_CacheIsLastCompletion ==
  LET fin == {k \in 1..Len(handled) : IsFetchFinished(handled[k])}
  IN  /\ fin = {} => users_cache = << >> /\ win_pop_map = << >>
      /\ fin # {} =>
           LET last == CHOOSE k \in fin : \A j \in fin : j <= k
           IN  /\ users_cache = handled[last].sig.payload.users
               /\ win_pop_map = handled[last].sig.payload.pop_map
      /\ \A k \in 1..Len(handled) :
           IF IsFetchFinished(handled[k])
             THEN /\ handled[k].users = handled[k].sig.payload.users
                  /\ handled[k].pop_map = handled[k].sig.payload.pop_map
             ELSE /\ handled[k].users = CacheBefore(k).users
                  /\ handled[k].pop_map = CacheBefore(k).pop_map

\* Two Fetch tasks ran at once and completed with different users and
\* different lookups; the completion of the later one was handled first.
C12_Witness ==
  \E j, k \in 1..Len(handled) :
    /\ j < k
    /\ IsFetchFinished(handled[j]) /\ IsFetchFinished(handled[k])
    /\ handled[j].task > handled[k].task
    /\ handled[j].sig.payload.users # handled[k].sig.payload.users
    /\ handled[j].sig.payload.pop_map # handled[k].sig.payload.pop_map
    /\ handled[k].sig.payload.pop_map # << >>

\* ----------------------------------------------------------------------- C13
\* C13 as stated: a user action causes at most one task to be dispatched,
\* the tasks dispatched by the handlers it attached included.
C13_OneTaskPerAction ==
  \A r \in TaskIds : Cardinality(TasksOf(r)) <= 1

\* C13, amended: connect/sync and refresh dispatch exactly one Fetch task and
\* nothing more; a confirmed delete-selected dispatches exactly one Bulk-Delete
\* task and, through the completion handler it attaches, one Fetch task once
\* that completion has been handled: two tasks at most.
C13_TasksPerAction ==
  /\ \A t \in Dispatched :
       /\ cause[t].root \in Dispatched
       /\ cause[cause[t].root].root = cause[t].root
  /\ \A r \in Dispatched :
       cause[r].root = r =>
         /\ kind[r] = "fetch" => cause[r].by = "refresh_users" /\ TasksOf(r) = {r}
         /\ kind[r] = "delete" =>
              /\ cause[r].by = "delete_selected_users"
              /\ Cardinality(TasksOf(r) \ {r}) <= 1
              /\ \A t \in TasksOf(r) \ {r} :
                   /\ kind[t] = "fetch"
                   /\ cause[t].by = "on_delete_finished"
                   /\ \E k \in 1..Len(handled) :
                        handled[k].task = r /\ IsDeleteFinished(handled[k])

\* A confirmed delete of two users whose completion handler has dispatched
\* its Fetch task.
C13_Witness ==
  \E r, t \in Dispatched :
    /\ kind[r] = "delete" /\ Len(user_ids[r]) = 2
    /\ t # r /\ cause[t].root = r
    /\ kind[t] = "fetch"

\* ----------------------------------------------------------------------- C14
\* C14: loading profile P yields the environment, client and secret of the most
\* recent save under P; a save under a name the file has overwrites that
\* entry and leaves the other names as they were; the secret comes from the
\* vault only, and the profile file never holds a secret.
C14_ProfileRoundTrip ==
  /\ loaded.name # "" =>
       /\ loaded.name \in DOMAIN saves
       /\ loaded.env_id = saves[loaded.name].env_id
       /\ loaded.cl_id = saves[loaded.name].cl_id
       /\ loaded.cl_sec = saves[loaded.name].cl_sec
       /\ loaded.name \in DOMAIN vault /\ loaded.cl_sec = vault[loaded.name]
  /\ \A n \in DOMAIN saves :
       /\ Cardinality({k \in 1..Len(config_file) : config_file[k].name = n}) = 1
       /\ \A k \in 1..Len(config_file) :
            config_file[k].name = n =>
              /\ config_file[k].env_id = saves[n].env_id
              /\ config_file[k].cl_id = saves[n].cl_id
       /\ n \in DOMAIN vault /\ vault[n] = saves[n].cl_sec
  /\ \A k \in 1..Len(config_file) :
       /\ config_file[k].name \in DOMAIN saves
       /\ DOMAIN config_file[k] = {"name", "env_id", "cl_id"}
       /\ {config_file[k].name, config_file[k].env_id, config_file[k].cl_id}
            \cap SecretTexts = {}

\* Two profiles saved with different fields, the second one selected and
\* loaded with its own three values, the first one's still in place.
C14_Witness ==
  /\ DOMAIN saves = {"P1", "P2"}
  /\ loaded.name = "P2"
  /\ Keys(config_file) = <<"P1", "P2">>
  /\ saves["P1"] = [env_id |-> "E1", cl_id |-> "C1", cl_sec |-> "S1"]
  /\ env_id = "E2" /\ cl_id = "C2" /\ cl_sec = "S2"
  /\ loaded.cl_sec = "S2"

\* ----------------------------------------------------------------------- C15
\* The row holds the text of the search bar in one of its cells, letter case
\* apart.
HoldsQuery(row) ==
  \E j \in 1..Len(row.cells) :
    Contains(Lower(Chars(row.cells[j])), Lower(Chars(search_bar)))

\* C15: the visible rows of the table are exactly the rows that hold the query
\* of the search bar, right after the query changed and also after a later
\* Fetch completion filled the table again with the query unchanged.
C15_Filtering ==
  \A k \in 1..Len(u_table) : u_table[k].hidden = ~HoldsQuery(u_table[k])

\* ----------------------------------------------------------------------- C16
\* C16: the population cell of a row shows the name the lookup of the handled
\* result gives for the user's population identifier when that identifier is
\* one of its keys, the raw identifier when it is not, and nothing for a user
\* without a population.
C16_PopulationResolution ==
  \A k \in 1..Len(u_table) :
    LET row == u_table[k]
        p_id == UserRecord(row.cells[6]).population
    IN  /\ p_id = "" => row.cells[5] = ""
        /\ p_id # "" /\ p_id \in DOMAIN win_pop_map =>
             /\ row.cells[5] = win_pop_map[p_id]
             /\ \E j \in 1..Len(handled) :
                  /\ IsFetchFinished(handled[j])
                  /\ p_id \in DOMAIN handled[j].sig.payload.pop_map
                  /\ handled[j].sig.payload.pop_map[p_id] = row.cells[5]
        /\ p_id # "" /\ p_id \notin DOMAIN win_pop_map => row.cells[5] = p_id

\* A table with a user whose population the lookup names and a user without
\* a population.
C16_Witness ==
  /\ Len(u_table) = 2
  /\ \E k \in 1..2 : u_table[k].cells[6] = "u1" /\ u_table[k].cells[5] = "Pop One"
  /\ \E k \in 1..2 : u_table[k].cells[6] = "u2" /\ u_table[k].cells[5] = ""

\* ----------------------------------------------------------------------- C17
\* The network calls among a task's trace.
CallsOf(t) ==
  SelectSeq(trace[t], LAMBDA e : e.ev \in {"POST_token", "GET_populations",
                                            "GET_users", "DELETE"})

\* C17: a task's first network call is its one token acquisition; every later
\* call of the task presents the token that acquisition returned, never
\* another task's; a Fetch task requests the populations once, right after
\* the token and before its first users page.
C17_OwnTokenFirst ==
  \A t \in Dispatched :
    LET c == CallsOf(t)
    IN  /\ pc[t] # "token" => Len(c) >= 1
        /\ Len(c) >= 1 =>
             /\ c[1].ev = "POST_token"
             /\ \A k \in 2..Len(c) :
                  /\ c[k].ev # "POST_token"
                  /\ c[k].auth = Bearer(c[1].ret)
                  /\ c[k].ev = "GET_populations" <=> (kind[t] = "fetch" /\ k = 2)
                  /\ c[k].ev = "GET_users" => kind[t] = "fetch" /\ k >= 3
                  /\ c[k].ev = "DELETE" => kind[t] = "delete"

\* A Fetch task holding a token has requested its users while a Bulk-Delete
\* task whose token acquisition failed has sent a delete call without one.
C17_Witness ==
  \E t1, t2 \in Dispatched :
    /\ kind[t1] = "fetch" /\ Len(CallsOf(t1)) = 3 /\ ~Falsy(token[t1])
    /\ kind[t2] = "delete" /\ Len(CallsOf(t2)) >= 2
    /\ CallsOf(t2)[2].auth = "Bearer None"
    /\ pc[t1] # "done" \/ pc[t2] # "done"

\* ----------------------------------------------------------------------- C18
\* The slot of the delete button returned without a worker: no row was
\* selected, or the question was not answered Yes.
DeleteNotConfirmed ==
  \/ question_no
  \/ delete_selected_users(<< >>)

\* C18: every handled completion of a Bulk-Delete task has dispatched exactly
\* one new Fetch task, whatever the count of deletions it reports, zero
\* included; a delete action with no selected row or with its confirmation
\* declined dispatches no task.
C18_RefreshAfterDelete ==
  /\ [](\A d \in Dispatched :
          kind[d] = "delete" =>
            LET done == {k \in 1..Len(handled) :
                           handled[k].task = d /\ IsDeleteFinished(handled[k])}
                after == {t \in Dispatched :
                            /\ cause[t] = [by |-> "on_delete_finished", root |-> d]
                            /\ kind[t] = "fetch"}
            IN  /\ Cardinality(after) = Cardinality(done)
                /\ \A t \in after, k \in done : at_dispatch[t].nhandled = k - 1)
  /\ [][DeleteNotConfirmed => kind' = kind /\ pc' = pc /\ mainq' = mainq]_vars

\* A Bulk-Delete task that deleted nothing has completed and its handler has
\* dispatched the Fetch task.
C18_Witness ==
  \E k \in 1..Len(handled) :
    /\ IsDeleteFinished(handled[k])
    /\ handled[k].sig.payload.deleted = 0
    /\ handled[k].sig.payload.total = 2
    /\ \E t \in Dispatched : cause[t].by = "on_delete_finished"

====
